---- MODULE Spec2Model ----
(***************************************************************************)
(* Model of ComplexPropertyCollection<TComplexProperty>                    *)
(* (src/src/js/ComplexProperties/ComplexPropertyCollection.ts): an ordered *)
(* collection of elements with a change log (addedItems, modifiedItems,    *)
(* removedItems), ingestion from a parsed wire payload and the update      *)
(* serialization of the empty collection.                                  *)
(***************************************************************************)
EXTENDS Integers, Sequences, FiniteSets, TLC

(* ------------------------------ bounds --------------------------------- *)
\* number of element objects that exist in the program
NumElems == 2
\* longest removedItems array explored (the array can hold duplicates)
MaxRemoved == 2
\* most delegates explored over all OnChange arrays: every successful add pushes one
MaxListeners == 3
\* longest array payload handed to the ingestion entry points
MaxPayloadLen == 1

Elements == 1..NumElems
\* items[index] for an index outside the array (JavaScript undefined)
Undefined == 0
\* the contents element payloads carry
PayloadData == {1}

(* --------------------------- array helpers ----------------------------- *)
Range(s) == {s[i] : i \in 1..Len(s)}

\* Array.prototype.indexOf: zero-based position of the first occurrence, -1 if absent
ArrayIndexOf(s, x) ==
    IF \E i \in 1..Len(s) : s[i] = x
    THEN (CHOOSE i \in 1..Len(s) : s[i] = x /\ \A j \in 1..(i - 1) : s[j] # x) - 1
    ELSE -1

\* the array left by ArrayHelper.RemoveEntry(array, entry): first occurrence spliced out
RemoveEntry(s, x) ==
    LET i == ArrayIndexOf(s, x) + 1
    IN IF i = 0 THEN s
       ELSE [j \in 1..(Len(s) - 1) |-> IF j < i THEN s[j] ELSE s[j + 1]]

\* the boolean ArrayHelper.RemoveEntry(array, entry) returns
RemoveEntryFound(s, x) == ArrayIndexOf(s, x) >= 0

(* ------------------------------- state --------------------------------- *)
VARIABLES
    items,          \* private items: TComplexProperty[]
    addedItems,     \* private addedItems
    modifiedItems,  \* private modifiedItems
    removedItems,   \* private removedItems
    OnChange,       \* OnChange[x]: the delegates registered on element x
    synced,         \* elements known to the server: loaded, or members at the last ClearChangeLog
    addCalls        \* the arguments of the calls so far while they are all adds of distinct elements

vars == <<items, addedItems, modifiedItems, removedItems, OnChange, synced, addCalls>>

\* the method this.ItemChanged and the function this.ItemChanged.bind(this)
ItemChangedMethod == [method |-> "ItemChanged", bound |-> FALSE]
\* Function.prototype.bind returns a new function object, never the method itself
Bind(f) == [f EXCEPT !.bound = TRUE]

\* the object state an operation works on; changed counts the collection's Changed()
\* calls and loads lists the LoadFromXmlJsObject calls made on elements
Cur == [items |-> items, addedItems |-> addedItems, modifiedItems |-> modifiedItems,
        removedItems |-> removedItems, OnChange |-> OnChange,
        changed |-> 0, loads |-> <<>>, ret |-> "void"]

Count(s) == Len(s.items)
Contains(s, x) == ArrayIndexOf(s.items, x) >= 0
IndexOf(s, x) == ArrayIndexOf(s.items, x)

(* ------------------------ mutation and change log ---------------------- *)
Changed(s) == [s EXCEPT !.changed = @ + 1]

\* InternalAdd without the membership test of line 217
InternalAdd_NoMembershipTest(s, x, loading) ==
    LET s1 == [s EXCEPT !.items = Append(@, x)]
        s2 == IF ~loading
              THEN [s1 EXCEPT !.removedItems = RemoveEntry(@, x),
                              !.addedItems = Append(@, x)]
              ELSE s1
        s3 == [s2 EXCEPT !.OnChange[x] = Append(@, Bind(ItemChangedMethod))]
    IN Changed(s3)

\* InternalAdd with <= in place of < in the membership test of line 217
InternalAdd_IndexZeroAbsent(s, x, loading) ==
    IF ArrayIndexOf(s.items, x) <= 0
    THEN LET s1 == [s EXCEPT !.items = Append(@, x)]
             s2 == IF ~loading
                   THEN [s1 EXCEPT !.removedItems = RemoveEntry(@, x),
                                   !.addedItems = Append(@, x)]
                   ELSE s1
             s3 == [s2 EXCEPT !.OnChange[x] = Append(@, Bind(ItemChangedMethod))]
         IN Changed(s3)
    ELSE s

\* InternalAdd with unshift in place of push at line 218
InternalAdd_Unshift(s, x, loading) ==
    IF ArrayIndexOf(s.items, x) < 0
    THEN LET s1 == [s EXCEPT !.items = <<x>> \o @]
             s2 == IF ~loading
                   THEN [s1 EXCEPT !.removedItems = RemoveEntry(@, x),
                                   !.addedItems = Append(@, x)]
                   ELSE s1
             s3 == [s2 EXCEPT !.OnChange[x] = Append(@, Bind(ItemChangedMethod))]
         IN Changed(s3)
    ELSE s

InternalAdd(s, x, loading) ==
    IF ArrayIndexOf(s.items, x) < 0
    THEN LET s1 == [s EXCEPT !.items = Append(@, x)]
             s2 == IF ~loading
                   THEN [s1 EXCEPT !.removedItems = RemoveEntry(@, x),
                                   !.addedItems = Append(@, x)]
                   ELSE s1
             s3 == [s2 EXCEPT !.OnChange[x] = Append(@, Bind(ItemChangedMethod))]
         IN Changed(s3)
    ELSE s

\* InternalRemove recording the removal without the test of line 253
InternalRemove_KeepsAdded(s, x) ==
    IF RemoveEntryFound(s.items, x)
    THEN LET s1 == [s EXCEPT !.items = RemoveEntry(@, x)]
             s2 == [s1 EXCEPT !.OnChange[x] = RemoveEntry(@, ItemChangedMethod)]
             s3 == [s2 EXCEPT !.removedItems = Append(@, x)]
             s4 == [s3 EXCEPT !.modifiedItems = RemoveEntry(@, x)]
         IN [Changed(s4) EXCEPT !.ret = "true"]
    ELSE [s EXCEPT !.ret = "false"]

InternalRemove(s, x) ==
    IF RemoveEntryFound(s.items, x)
    THEN LET s1 == [s EXCEPT !.items = RemoveEntry(@, x)]
             s2 == [s1 EXCEPT !.OnChange[x] = RemoveEntry(@, ItemChangedMethod)]
             s3 == IF ArrayIndexOf(s2.addedItems, x) < 0
                   THEN [s2 EXCEPT !.removedItems = Append(@, x)]
                   ELSE [s2 EXCEPT !.addedItems = RemoveEntry(@, x)]
             s4 == [s3 EXCEPT !.modifiedItems = RemoveEntry(@, x)]
         IN [Changed(s4) EXCEPT !.ret = "true"]
    ELSE [s EXCEPT !.ret = "false"]

\* EwsLogging.Assert only logs; this.items[index] is undefined outside the array
InternalRemoveAt(s, index) ==
    LET x == IF index >= 0 /\ index < Len(s.items) THEN s.items[index + 1] ELSE Undefined
    IN [InternalRemove(s, x) EXCEPT !.ret = "void"]

\* InternalClear as a bulk reset of items in place of the loop of lines 232-234
InternalClear_BulkReset(s) == [s EXCEPT !.items = <<>>]

RECURSIVE InternalClear(_)
InternalClear(s) ==
    IF Count(s) > 0 THEN InternalClear(InternalRemoveAt(s, 0)) ELSE s

ItemChanged(s, x) ==
    IF ArrayIndexOf(s.addedItems, x) < 0
    THEN IF ArrayIndexOf(s.modifiedItems, x) < 0
         THEN Changed([s EXCEPT !.modifiedItems = Append(@, x)])
         ELSE s
    ELSE s

\* the element's own Changed(): every delegate of its OnChange array is called with the element
RECURSIVE InvokeDelegates(_, _, _)
InvokeDelegates(s, ds, x) ==
    IF ds = <<>> THEN s
    ELSE InvokeDelegates(IF Head(ds).method = "ItemChanged" THEN ItemChanged(s, x) ELSE s,
                         Tail(ds), x)

ElementChanged(s, x) == InvokeDelegates(s, s.OnChange[x], x)

\* ClearChangeLog without line 90
ClearChangeLog_KeepsModified(s) ==
    [s EXCEPT !.removedItems = <<>>, !.addedItems = <<>>]

ClearChangeLog(s) ==
    [s EXCEPT !.removedItems = <<>>, !.addedItems = <<>>, !.modifiedItems = <<>>]

RemoveFromChangeLog(s, x) ==
    [s EXCEPT !.removedItems = RemoveEntry(@, x),
              !.modifiedItems = RemoveEntry(@, x),
              !.addedItems = RemoveEntry(@, x)]

(* ------------------------------ ingestion ------------------------------ *)
\* the concrete subclass modelled: two element classes, tag "A" the default one
ClassOf(x) == IF x % 2 = 1 THEN "A" ELSE "B"
NoClass == "null"

\* abstract CreateComplexProperty(xmlElementName): the class instantiated, null if unknown
CreateComplexProperty(xmlElementName) ==
    IF xmlElementName \in {"A", "B"} THEN xmlElementName ELSE NoClass

\* abstract CreateDefaultComplexProperty()
CreateDefaultComplexProperty == "A"

\* abstract GetCollectionItemXmlElementName(null)
GetCollectionItemXmlElementName == "A"

\* instanceof answering true for every element and class
InstanceOf_Always(x, class) == TRUE

\* actual instanceof expected.constructor
InstanceOf(x, class) == ClassOf(x) = class

\* an element payload: kind "elem" (an object), "null", or "meta" (the string under a __ key)
NullEntry == [kind |-> "null", hint |-> "", data |-> 0]
MetaEntry == [kind |-> "meta", hint |-> "", data |-> 0]
ElemEntry(h, d) == [kind |-> "elem", hint |-> h, data |-> d]
Hints == {"", "B", "Z"}
Entries == {ElemEntry(h, d) : h \in Hints, d \in PayloadData} \cup {NullEntry}

\* TypeSystem.GetJsObjectTypeName: the __type of an object, "" (falsy) when it has none
GetJsObjectTypeName(e) == e.hint

\* EwsServiceJsonReader.ReadAsArray(jsObject, key) for a value that is not an array
ReadAsArray(value) == <<value>>

\* the test looking for one underscore at the start of the key
IsMetaKey_SingleUnderscore(key) == key.prefix = "_"

\* key.indexOf("__") === 0
IsMetaKey(key) == key.prefix = "__"

RECURSIVE AddRangeOfKeys(_, _)
\* the for..in loop over the keys of a keyed container, in key order
AddRangeOfKeys(collection, keys) ==
    IF keys = <<>> THEN collection
    ELSE LET k == Head(keys)
         IN IF IsMetaKey(k.key)
            THEN AddRangeOfKeys(collection, Tail(keys))
            ELSE AddRangeOfKeys(
                     collection \o (IF k.isArray THEN k.vals ELSE ReadAsArray(k.vals[1])),
                     Tail(keys))

\* the normalized element list both entry points build from jsObjectCollection
Normalize(p) ==
    IF p.isArray THEN p.list
    ELSE LET collectionElement == GetCollectionItemXmlElementName
             typeName == p.typeName
         IN IF collectionElement = "null" \/ (typeName # "" /\ collectionElement = typeName)
            THEN <<ElemEntry(p.typeName, p.data)>>
            ELSE AddRangeOfKeys(<<>>, p.keys)

\* elements no call has seen yet: what a factory's new object is
IsFresh(s, x) ==
    /\ x \notin Range(s.items) \cup Range(s.addedItems)
             \cup Range(s.modifiedItems) \cup Range(s.removedItems)
    /\ s.OnChange[x] = <<>>

\* element.LoadFromXmlJsObject(jsonProperty, service)
LoadFromXmlJsObject(s, x, e) ==
    [s EXCEPT !.loads = Append(@, [element |-> x, jsonProperty |-> e])]

RECURSIVE CreateLoop_NotLoading(_, _)
\* the loop of CreateFromXmlJsObjectCollection calling InternalAdd without loading = true
CreateLoop_NotLoading(s, collection) ==
    IF collection = <<>> THEN s
    ELSE LET e == Head(collection)
             class == IF GetJsObjectTypeName(e) # ""
                      THEN CreateComplexProperty(GetJsObjectTypeName(e))
                      ELSE CreateDefaultComplexProperty
             fresh == {x \in Elements : IsFresh(s, x) /\ ClassOf(x) = class}
         IN IF e.kind = "null" \/ class = NoClass
            THEN CreateLoop_NotLoading(s, Tail(collection))
            ELSE IF fresh = {}
                 THEN [s EXCEPT !.ret = "exhausted"]
                 ELSE LET x == CHOOSE y \in fresh : \A z \in fresh : y <= z
                      IN CreateLoop_NotLoading(
                             InternalAdd(LoadFromXmlJsObject(s, x, e), x, FALSE),
                             Tail(collection))

RECURSIVE CreateLoop(_, _)
\* the for..of loop of CreateFromXmlJsObjectCollection; ret "exhausted" when the
\* model has no unused element object of the class left
CreateLoop(s, collection) ==
    IF collection = <<>> THEN s
    ELSE LET e == Head(collection)
             class == IF GetJsObjectTypeName(e) # ""
                      THEN CreateComplexProperty(GetJsObjectTypeName(e))
                      ELSE CreateDefaultComplexProperty
             fresh == {x \in Elements : IsFresh(s, x) /\ ClassOf(x) = class}
         IN IF e.kind = "null" \/ class = NoClass
            THEN CreateLoop(s, Tail(collection))
            ELSE IF fresh = {}
                 THEN [s EXCEPT !.ret = "exhausted"]
                 ELSE LET x == CHOOSE y \in fresh : \A z \in fresh : y <= z
                      IN CreateLoop(InternalAdd(LoadFromXmlJsObject(s, x, e), x, TRUE),
                                    Tail(collection))

\* CreateFromXmlJsObjectCollection emptying items before the loop of line 149
CreateFromXmlJsObjectCollection_Replaces(s, p) ==
    CreateLoop([s EXCEPT !.items = <<>>], Normalize(p))

CreateFromXmlJsObjectCollection(s, p) == CreateLoop(s, Normalize(p))

RECURSIVE UpdateLoop(_, _, _, _)
\* the for..of loop of UpdateFromXmlJsObjectCollection; notifies: whether the element
\* class raises its change notification when it loads
UpdateLoop(s, collection, index, notifies) ==
    IF collection = <<>> THEN s
    ELSE LET e == Head(collection)
             expected == IF GetJsObjectTypeName(e) # ""
                         THEN CreateComplexProperty(GetJsObjectTypeName(e))
                         ELSE CreateDefaultComplexProperty
             actual == s.items[index + 1]
             loaded == LoadFromXmlJsObject(s, actual, e)
         IN IF e.kind = "null"
            THEN [s EXCEPT !.ret = "ServiceLocalException"]
            ELSE IF expected = NoClass \/ ~InstanceOf(actual, expected)
                 THEN [s EXCEPT !.ret = "PropertyTypeIncompatibleWhenUpdatingCollection"]
                 ELSE UpdateLoop(IF notifies THEN ElementChanged(loaded, actual) ELSE loaded,
                                 Tail(collection), index + 1, notifies)

\* UpdateFromXmlJsObjectCollection with < in place of != at line 368
UpdateFromXmlJsObjectCollection_ShorterAccepted(s, p, notifies) ==
    LET collection == Normalize(p)
    IN IF Count(s) < Len(collection)
       THEN [s EXCEPT !.ret = "PropertyCollectionSizeMismatch"]
       ELSE UpdateLoop(s, collection, 0, notifies)

UpdateFromXmlJsObjectCollection(s, p, notifies) ==
    LET collection == Normalize(p)
    IN IF Count(s) # Len(collection)
       THEN [s EXCEPT !.ret = "PropertyCollectionSizeMismatch"]
       ELSE UpdateLoop(s, collection, 0, notifies)

(* ------------------------------ emission ------------------------------- *)
ShouldWriteToRequest(s) == Count(s) > 0

\* WriteSetUpdateToXml with the branches of line 440 exchanged
WriteSetUpdateToXml_Inverted(s) ==
    IF Count(s) # 0
    THEN [ret |-> "true",
          out |-> <<"WriteStartElement(DeleteFieldXmlElementName)",
                    "propertyDefinition.WriteToXml",
                    "WriteEndElement">>]
    ELSE [ret |-> "false", out |-> <<>>]

\* the calls made on the writer, and the value returned
WriteSetUpdateToXml(s) ==
    IF Count(s) = 0
    THEN [ret |-> "true",
          out |-> <<"WriteStartElement(DeleteFieldXmlElementName)",
                    "propertyDefinition.WriteToXml",
                    "WriteEndElement">>]
    ELSE [ret |-> "false", out |-> <<>>]

(* ------------------------------- inputs -------------------------------- *)
RECURSIVE SeqsUpTo(_, _)
SeqsUpTo(S, n) ==
    IF n = 0 THEN {<<>>}
    ELSE LET shorter == SeqsUpTo(S, n - 1)
         IN shorter \cup {Append(q, e) : q \in {r \in shorter : Len(r) = n - 1}, e \in S}

ArrayPayload(list) ==
    [isArray |-> TRUE, list |-> list, typeName |-> "", data |-> 0, keys |-> <<>>]
ObjectPayload(typeName, d, keys) ==
    [isArray |-> FALSE, list |-> <<>>, typeName |-> typeName, data |-> d, keys |-> keys]

MetaKey(name) ==
    [key |-> [prefix |-> "__", name |-> name], isArray |-> FALSE, vals |-> <<MetaEntry>>]
BareKey(name, e) ==
    [key |-> [prefix |-> "", name |-> name], isArray |-> FALSE, vals |-> <<e>>]
ArrayKey(name, list) ==
    [key |-> [prefix |-> "", name |-> name], isArray |-> TRUE, vals |-> list]

\* the keys of the keyed containers explored
Keys ==
    {MetaKey("type")}
        \cup {BareKey("Item", ElemEntry("", d)) : d \in PayloadData}
        \cup {ArrayKey("Items", <<ElemEntry("", d), ElemEntry("B", d)>>) : d \in PayloadData}

\* an object has each of its keys once
DistinctKeys(ks) == \A i, j \in 1..Len(ks) : ks[i].key = ks[j].key => i = j

\* the payloads explored: arrays, a bare element of the collection's tag, keyed containers
Payloads ==
    {ArrayPayload(l) : l \in SeqsUpTo(Entries, MaxPayloadLen)}
        \cup {ObjectPayload("A", d, <<>>) : d \in PayloadData}
        \cup {ObjectPayload("", 0, ks) : ks \in {q \in SeqsUpTo(Keys, 2) : DistinctKeys(q)}}

(* ------------------------------- actions ------------------------------- *)
NoAddCalls == [ok |-> FALSE, xs |-> <<>>]

RECURSIVE Delegates(_, _)
Delegates(f, n) == IF n = 0 THEN 0 ELSE Len(f[n]) + Delegates(f, n - 1)

WithinBounds(s) ==
    /\ Len(s.removedItems) <= MaxRemoved
    /\ Delegates(s.OnChange, NumElems) <= MaxListeners

\* the object state a call leaves
Commit(s) ==
    /\ WithinBounds(s)
    /\ items' = s.items
    /\ addedItems' = s.addedItems
    /\ modifiedItems' = s.modifiedItems
    /\ removedItems' = s.removedItems
    /\ OnChange' = s.OnChange

Init ==
    /\ items = <<>>
    /\ addedItems = <<>>
    /\ modifiedItems = <<>>
    /\ removedItems = <<>>
    /\ OnChange = [x \in Elements |-> <<>>]
    /\ synced = {}
    /\ addCalls = [ok |-> TRUE, xs |-> <<>>]

\* InternalAdd(complexProperty)
CallInternalAdd(x) ==
    /\ Commit(InternalAdd(Cur, x, FALSE))
    /\ addCalls' = IF addCalls.ok /\ x \notin Range(addCalls.xs)
                   THEN [addCalls EXCEPT !.xs = Append(@, x)] ELSE NoAddCalls
    /\ UNCHANGED synced

\* InternalAdd(complexProperty, true)
CallInternalAddLoading(x) ==
    /\ Commit(InternalAdd(Cur, x, TRUE))
    /\ addCalls' = IF addCalls.ok /\ x \notin Range(addCalls.xs)
                   THEN [addCalls EXCEPT !.xs = Append(@, x)] ELSE NoAddCalls
    /\ synced' = IF Contains(Cur, x) THEN synced ELSE synced \cup {x}

CallInternalRemove(x) ==
    /\ Commit(InternalRemove(Cur, x))
    /\ addCalls' = NoAddCalls
    /\ UNCHANGED synced

CallInternalRemoveAt(index) ==
    /\ Commit(InternalRemoveAt(Cur, index))
    /\ addCalls' = NoAddCalls
    /\ UNCHANGED synced

CallInternalClear ==
    /\ Commit(InternalClear(Cur))
    /\ addCalls' = NoAddCalls
    /\ UNCHANGED synced

\* the user edits element x, which raises the element's change notification
CallElementChanged(x) ==
    /\ Commit(ElementChanged(Cur, x))
    /\ addCalls' = NoAddCalls
    /\ UNCHANGED synced

CallClearChangeLog ==
    /\ Commit(ClearChangeLog(Cur))
    /\ addCalls' = NoAddCalls
    /\ synced' = Range(items)

CallRemoveFromChangeLog(x) ==
    /\ Commit(RemoveFromChangeLog(Cur, x))
    /\ addCalls' = NoAddCalls
    /\ UNCHANGED synced

CallCreateFromXmlJsObjectCollection(p) ==
    LET s == CreateFromXmlJsObjectCollection(Cur, p)
    IN /\ s.ret # "exhausted"
       /\ Commit(s)
       /\ addCalls' = NoAddCalls
       /\ synced' = synced \cup (Range(s.items) \ Range(items))

CallUpdateFromXmlJsObjectCollection(p, notifies) ==
    /\ Commit(UpdateFromXmlJsObjectCollection(Cur, p, notifies))
    /\ addCalls' = NoAddCalls
    /\ UNCHANGED synced

\* ShouldWriteToRequest() and WriteSetUpdateToXml(...) read the collection only
CallShouldWriteToRequest ==
    /\ ShouldWriteToRequest(Cur) \in BOOLEAN
    /\ addCalls' = NoAddCalls
    /\ UNCHANGED <<items, addedItems, modifiedItems, removedItems, OnChange, synced>>

CallWriteSetUpdateToXml ==
    /\ WriteSetUpdateToXml(Cur).ret \in {"true", "false"}
    /\ addCalls' = NoAddCalls
    /\ UNCHANGED <<items, addedItems, modifiedItems, removedItems, OnChange, synced>>

Next ==
    \/ \E x \in Elements : CallInternalAdd(x)
    \/ \E x \in Elements : CallInternalAddLoading(x)
    \/ \E x \in Elements : CallInternalRemove(x)
    \/ \E index \in -1..NumElems : CallInternalRemoveAt(index)
    \/ CallInternalClear
    \/ \E x \in Elements : CallElementChanged(x)
    \/ CallClearChangeLog
    \/ \E x \in Elements : CallRemoveFromChangeLog(x)
    \/ \E p \in Payloads : CallCreateFromXmlJsObjectCollection(p)
    \/ \E p \in Payloads, notifies \in BOOLEAN : CallUpdateFromXmlJsObjectCollection(p, notifies)
    \/ CallShouldWriteToRequest
    \/ CallWriteSetUpdateToXml

Spec == Init /\ [][Next]_vars

\* the same behaviours; the claims on the two wire entry points are checked under it
WireSpec == Init /\ [][Next]_vars

(* ------------------------------- claims -------------------------------- *)
Members(s) == Range(s.items)
Added(s) == Range(s.addedItems)
Modified(s) == Range(s.modifiedItems)
Removed(s) == Range(s.removedItems)

\* C1: in every reachable state no element is in both addedItems and removedItems.
C1_AddedRemovedDisjoint == Added(Cur) \cap Removed(Cur) = {}

\* C2: in every reachable state every element of modifiedItems is a member of items,
\* also when an element changes after its removal.
C2_ModifiedAreMembers == Modified(Cur) \subseteq Members(Cur)

\* C3: InternalRemove(x) on a member x that existed at the last synchronization point
\* returns true and leaves x out of items, in removedItems and out of modifiedItems.
C3_RemoveOfSyncedMember ==
    \A x \in Elements :
        (Contains(Cur, x) /\ x \in synced) =>
            LET t == InternalRemove(Cur, x)
            IN /\ t.ret = "true"
               /\ x \notin Members(t)
               /\ x \in Removed(t)
               /\ x \notin Modified(t)

\* C4: for x not a member, InternalAdd(x) immediately followed by InternalRemove(x)
\* leaves x out of items, out of addedItems and out of removedItems.
C4_AddThenRemoveCancels ==
    \A x \in Elements :
        ~Contains(Cur, x) =>
            LET t == InternalRemove(InternalAdd(Cur, x, FALSE), x)
            IN /\ x \notin Members(t)
               /\ x \notin Added(t)
               /\ x \notin Removed(t)

\* C5: InternalAdd(x), loading or not, on a member x leaves items, the three change
\* arrays and the delegates registered on x as they were and calls Changed() not once.
C5_AddOfMemberChangesNothing ==
    \A x \in Elements, loading \in BOOLEAN :
        Contains(Cur, x) =>
            LET t == InternalAdd(Cur, x, loading)
            IN /\ t.items = items
               /\ t.addedItems = addedItems
               /\ t.modifiedItems = modifiedItems
               /\ t.removedItems = removedItems
               /\ t.OnChange[x] = OnChange[x]
               /\ t.changed = 0

\* a member is present while all three change arrays hold entries
WitnessC5 ==
    /\ \E x \in Elements : Contains(Cur, x) /\ InternalAdd(Cur, x, FALSE).changed = 0
    /\ addedItems # <<>>
    /\ modifiedItems # <<>>
    /\ removedItems # <<>>

\* C6: in every reachable state each element occurs at most once in items, so Count
\* is the number of distinct members.
C6_MembersOccurOnce ==
    /\ \A i, j \in 1..Len(items) : items[i] = items[j] => i = j
    /\ Count(Cur) = Cardinality(Members(Cur))

\* every element is a member and more adds than that have succeeded
WitnessC6 ==
    /\ Count(Cur) = NumElems
    /\ Delegates(OnChange, NumElems) > NumElems

\* C7: after n adds of pairwise distinct elements to the new collection, Count is n,
\* IndexOf of the i-th added element is i (zero-based) and IndexOf of any other is -1.
C7_AddsCountAndIndexOf ==
    addCalls.ok =>
        /\ Count(Cur) = Len(addCalls.xs)
        /\ \A i \in 1..Len(addCalls.xs) : IndexOf(Cur, addCalls.xs[i]) = i - 1
        /\ \A y \in Elements \ Range(addCalls.xs) : IndexOf(Cur, y) = -1

\* every element has been added, the highest-numbered one not last
WitnessC7 ==
    /\ addCalls.ok
    /\ Len(addCalls.xs) = NumElems
    /\ addCalls.xs[NumElems] # NumElems

\* C8: from any reachable state ClearChangeLog() leaves the three change arrays empty
\* and items, members and order, as it was.
C8_ClearChangeLogEmptiesLog ==
    LET t == ClearChangeLog(Cur)
    IN /\ t.addedItems = <<>>
       /\ t.modifiedItems = <<>>
       /\ t.removedItems = <<>>
       /\ t.items = items

\* ClearChangeLog() is called with members present and entries in all three arrays
WitnessC8 ==
    /\ Count(Cur) > 0
    /\ addedItems # <<>>
    /\ modifiedItems # <<>>
    /\ removedItems # <<>>
    /\ ClearChangeLog(Cur).items = items
    /\ ClearChangeLog(Cur).modifiedItems = <<>>

\* C9: UpdateFromXmlJsObjectCollection with a payload whose normalized list has a
\* length other than Count fails with PropertyCollectionSizeMismatch and leaves items,
\* the three change arrays and every element as they were: no element loads.
C9_UpdateSizeMismatch ==
    \A p \in Payloads, notifies \in BOOLEAN :
        Len(Normalize(p)) # Count(Cur) =>
            LET t == UpdateFromXmlJsObjectCollection(Cur, p, notifies)
            IN /\ t.ret = "PropertyCollectionSizeMismatch"
               /\ t.items = items
               /\ t.addedItems = addedItems
               /\ t.modifiedItems = modifiedItems
               /\ t.removedItems = removedItems
               /\ t.loads = <<>>
               /\ t.changed = 0

\* a shorter and a longer payload than the members present both fail
WitnessC9 ==
    /\ Count(Cur) > 0
    /\ \E p, q \in Payloads :
        /\ 0 < Len(Normalize(p))
        /\ Len(Normalize(p)) < Count(Cur)
        /\ Len(Normalize(q)) > Count(Cur)
        /\ UpdateFromXmlJsObjectCollection(Cur, p, TRUE).ret = "PropertyCollectionSizeMismatch"
        /\ UpdateFromXmlJsObjectCollection(Cur, q, TRUE).ret = "PropertyCollectionSizeMismatch"

DeleteFieldMarker ==
    <<"WriteStartElement(DeleteFieldXmlElementName)",
      "propertyDefinition.WriteToXml",
      "WriteEndElement">>

\* C10: in every reachable state ShouldWriteToRequest() is false exactly when Count is
\* 0 and WriteSetUpdateToXml returns true exactly when Count is 0, writing the delete
\* field element around the property definition then and nothing otherwise.
C10_EmptyCollectionSerialization ==
    /\ ShouldWriteToRequest(Cur) = FALSE <=> Count(Cur) = 0
    /\ WriteSetUpdateToXml(Cur).ret = "true" <=> Count(Cur) = 0
    /\ Count(Cur) = 0 => WriteSetUpdateToXml(Cur).out = DeleteFieldMarker
    /\ Count(Cur) > 0 => WriteSetUpdateToXml(Cur).out = <<>>

\* the collection has been emptied again and the update writes the delete field
WitnessC10 ==
    /\ Count(Cur) = 0
    /\ removedItems # <<>>
    /\ WriteSetUpdateToXml(Cur).ret = "true"
    /\ ~ShouldWriteToRequest(Cur)

\* C11: InternalRemoveAt(index) with index < 0 or index >= Count fails with the
\* index-out-of-range error and leaves items and the change arrays as they were; with
\* 0 <= index < Count it has the effects of InternalRemove on the element at index.
C11_RemoveAtBoundsChecked ==
    \A index \in -1..NumElems :
        LET t == InternalRemoveAt(Cur, index)
        IN IF index < 0 \/ index >= Count(Cur)
           THEN /\ t.ret = "IndexIsOutOfRange"
                /\ t.items = items
                /\ t.addedItems = addedItems
                /\ t.modifiedItems = modifiedItems
                /\ t.removedItems = removedItems
           ELSE LET r == InternalRemove(Cur, items[index + 1])
                IN /\ t.items = r.items
                   /\ t.addedItems = r.addedItems
                   /\ t.modifiedItems = r.modifiedItems
                   /\ t.removedItems = r.removedItems
                   /\ items[index + 1] \notin Members(t)

RECURSIVE RemoveEach(_, _)
\* InternalRemove called on each element of xs, one call after the other
RemoveEach(s, xs) ==
    IF xs = <<>> THEN s ELSE RemoveEach(InternalRemove(s, Head(xs)), Tail(xs))

\* C12: InternalClear() ends with Count = 0 and leaves the change arrays that
\* InternalRemove on each member in sequence order leaves: a former member that was in
\* addedItems is dropped from it, every other former member is in removedItems, and no
\* former member is in modifiedItems.
C12_ClearIsRemoveOfEachMember ==
    LET t == InternalClear(Cur)
        r == RemoveEach(Cur, items)
    IN /\ Count(t) = 0
       /\ t.addedItems = r.addedItems
       /\ t.modifiedItems = r.modifiedItems
       /\ t.removedItems = r.removedItems
       /\ t.changed = Count(Cur)
       /\ \A x \in Members(Cur) :
            /\ x \in Added(Cur) => x \notin Added(t)
            /\ x \notin Added(Cur) => x \in Removed(t)
            /\ x \notin Modified(t)

\* InternalClear() meets an added member, a modified member that was not added, and a
\* non-empty removedItems
WitnessC12 ==
    /\ Count(Cur) = NumElems
    /\ Added(Cur) # {}
    /\ Modified(Cur) \cap (Members(Cur) \ Added(Cur)) # {}
    /\ removedItems # <<>>
    /\ Count(InternalClear(Cur)) = 0

\* C13: in every reachable state no element is in both addedItems and modifiedItems:
\* ItemChanged(x) for x in addedItems changes nothing and calls Changed() not once, and
\* an element is never in modifiedItems when it is added to addedItems.
C13_AddedModifiedDisjoint ==
    /\ Added(Cur) \cap Modified(Cur) = {}
    /\ \A x \in Added(Cur) : ItemChanged(Cur, x) = Cur

\* the class an element payload resolves to: its type hint if it has one, else the default
ResolvedClass(e) ==
    IF e.hint # "" THEN CreateComplexProperty(e.hint) ELSE CreateDefaultComplexProperty

\* an entry that yields an element: not null, and its type resolves
Resolves(e) == e.kind # "null" /\ ResolvedClass(e) # NoClass

\* the entries of a normalized list that yield elements, in payload order
ParsedEntries(collection) == SelectSeq(collection, Resolves)

\* the elements a call has loaded, in the order of the loads
LoadedElements(t) == [i \in 1..Len(t.loads) |-> t.loads[i].element]

\* C14 as stated: after CreateFromXmlJsObjectCollection(payload) on a collection in any
\* state, items consists exactly of the elements parsed from payload, in payload order;
\* the members before the call are no longer in items.
C14_CreateReplacesItems ==
    \A p \in Payloads :
        LET t == CreateFromXmlJsObjectCollection(Cur, p)
        IN t.ret # "exhausted" =>
            /\ t.items = LoadedElements(t)
            /\ Members(Cur) \cap Members(t) = {}

\* C14 amended: after CreateFromXmlJsObjectCollection(payload) items consists of the
\* members before the call, in their order, followed by the new elements parsed from
\* payload, in payload order (exactly the parsed elements on an empty collection).
C14_CreateAppendsParsed ==
    \A p \in Payloads :
        LET t == CreateFromXmlJsObjectCollection(Cur, p)
            parsed == ParsedEntries(Normalize(p))
            new == LoadedElements(t)
        IN t.ret # "exhausted" =>
            /\ t.items = items \o new
            /\ Len(new) = Len(parsed)
            /\ \A i \in 1..Len(new) :
                /\ new[i] \notin Members(Cur)
                /\ ClassOf(new[i]) = ResolvedClass(parsed[i])
                /\ t.loads[i].jsonProperty = parsed[i]
                /\ \A j \in 1..Len(new) : new[i] = new[j] => i = j
            /\ (items = <<>> => t.items = new)

\* a payload is ingested into a collection that has a member and a new element follows it
WitnessC14 ==
    /\ Count(Cur) > 0
    /\ \E p \in Payloads :
        LET t == CreateFromXmlJsObjectCollection(Cur, p)
        IN /\ t.ret # "exhausted"
           /\ Count(t) > Count(Cur)
           /\ t.items[1] = items[1]

\* C15: CreateFromXmlJsObjectCollection leaves addedItems, modifiedItems and
\* removedItems as they were for every payload; each non-null entry whose type resolves
\* appends one new element at the end of items, in payload order, and a null entry or
\* an entry of unresolved type appends nothing.
C15_CreateLeavesChangeLog ==
    \A p \in Payloads :
        LET c == Normalize(p)
            t == CreateFromXmlJsObjectCollection(Cur, p)
        IN t.ret # "exhausted" =>
            /\ t.addedItems = addedItems
            /\ t.modifiedItems = modifiedItems
            /\ t.removedItems = removedItems
            /\ \A k \in 1..Len(c) :
                LET a == CreateLoop(Cur, SubSeq(c, 1, k - 1))
                    b == CreateLoop(Cur, SubSeq(c, 1, k))
                IN IF Resolves(c[k])
                   THEN /\ Count(b) = Count(a) + 1
                        /\ SubSeq(b.items, 1, Count(a)) = a.items
                        /\ b.items[Count(b)] \notin Members(a)
                        /\ b.loads[Len(b.loads)] =
                               [element |-> b.items[Count(b)], jsonProperty |-> c[k]]
                   ELSE b.items = a.items /\ b.loads = a.loads

\* a payload with an entry that yields an element and one that yields none is ingested
\* while all three change arrays hold entries
WitnessC15 ==
    /\ addedItems # <<>>
    /\ modifiedItems # <<>>
    /\ removedItems # <<>>
    /\ \E p, q \in Payloads :
        LET t == CreateFromXmlJsObjectCollection(Cur, p)
            c == Normalize(q)
        IN /\ t.ret # "exhausted"
           /\ Count(t) = Count(Cur) + 1
           /\ c # <<>>
           /\ \A k \in 1..Len(c) : ~Resolves(c[k])
           /\ Count(CreateFromXmlJsObjectCollection(Cur, q)) = Count(Cur)

\* the entry is not null and the element at its position is of its resolved class
Fits(s, e, k) == Resolves(e) /\ ClassOf(s.items[k]) = ResolvedClass(e)

C17_RegisteredWhileMember ==
    \A x \in Elements :
        Len(OnChange[x]) = IF Contains(Cur, x) THEN 1 ELSE 0

\* a payload that is no list and is not taken as one element of the collection's tag
IsKeyedContainer(p) ==
    /\ ~p.isArray
    /\ GetCollectionItemXmlElementName # "null"
    /\ ~(p.typeName # "" /\ p.typeName = GetCollectionItemXmlElementName)

\* a key that does not begin with a double underscore
IsElementKey(k) == k.key.prefix # "__"

RECURSIVE ValuesOf(_)
\* the values of the keys, a bare value as a list of one, concatenated in key order
ValuesOf(keys) ==
    IF keys = <<>> THEN <<>>
    ELSE ValuesOf(SubSeq(keys, 1, Len(keys) - 1)) \o keys[Len(keys)].vals

\* the entries the calls of LoadFromXmlJsObject were given
LoadedEntries(t) == {t.loads[i].jsonProperty : i \in 1..Len(t.loads)}

\* C18: for a keyed container the normalized element list is the concatenation, in key
\* order, of the values of the keys that do not begin with "__"; the value of a key
\* that begins with "__" is loaded into no element by either entry point, and
\* UpdateFromXmlJsObjectCollection compares Count with the length of that list.
C18_KeyedContainerSkipsMetaKeys ==
    \A p \in Payloads :
        IsKeyedContainer(p) =>
            LET expected == ValuesOf(SelectSeq(p.keys, IsElementKey))
                t == CreateFromXmlJsObjectCollection(Cur, p)
            IN /\ Normalize(p) = expected
               /\ MetaEntry \notin Range(expected)
               /\ MetaEntry \notin LoadedEntries(t)
               /\ \A notifies \in BOOLEAN :
                   LET u == UpdateFromXmlJsObjectCollection(Cur, p, notifies)
                   IN /\ MetaEntry \notin LoadedEntries(u)
                      /\ u.ret = "PropertyCollectionSizeMismatch"
                             <=> Count(Cur) # Len(expected)

\* a keyed container with a "__" key and two element values updates a collection of two
WitnessC18 ==
    /\ Count(Cur) = 2
    /\ \E p \in Payloads :
        /\ IsKeyedContainer(p)
        /\ \E i \in 1..Len(p.keys) : ~IsElementKey(p.keys[i])
        /\ Len(p.keys) > Len(SelectSeq(p.keys, IsElementKey))
        /\ LET u == UpdateFromXmlJsObjectCollection(Cur, p, FALSE)
           IN u.ret = "void" /\ Len(u.loads) = 2

\* C19: after RemoveFromChangeLog(x) the element x is in none of addedItems,
\* modifiedItems, removedItems; items is as it was, and every other element is in each
\* of the three exactly when it was before.
C19_RemoveFromChangeLogPurges ==
    \A x \in Elements :
        LET t == RemoveFromChangeLog(Cur, x)
        IN /\ x \notin Added(t) \cup Modified(t) \cup Removed(t)
           /\ t.items = items
           /\ Added(t) \ {x} = Added(Cur) \ {x}
           /\ Modified(t) \ {x} = Modified(Cur) \ {x}
           /\ Removed(t) \ {x} = Removed(Cur) \ {x}

\* C20: every element of addedItems is a member and occurs in addedItems once, and
\* InternalClear leaves addedItems empty.
C20_AddedAreMembersOnce ==
    /\ Added(Cur) \subseteq Members(Cur)
    /\ \A i, j \in 1..Len(addedItems) : addedItems[i] = addedItems[j] => i = j
    /\ InternalClear(Cur).addedItems = <<>>

\* a collection with an added member, a member that is not in addedItems and a removal
\* on record, which InternalClear empties
WitnessC20 ==
    /\ addedItems # <<>>
    /\ Members(Cur) \ Added(Cur) # {}
    /\ removedItems # <<>>
    /\ Count(InternalClear(Cur)) = 0

====
